---- MODULE Spec2Model ----
(***************************************************************************)
(* Model of build.rs of tflitec-rs: the Cargo build script that installs   *)
(* a prebuilt TensorFlow Lite C library or clones and builds it with       *)
(* Bazel, provisions the C headers and generates the bindings.             *)
(*                                                                         *)
(* The process environment is a function from variable names to values,   *)
(* the files the script reads and writes are the persistent state shared   *)
(* by successive invocations on one OUT_DIR, and `log` is the sequence of  *)
(* external steps (sub-processes, file operations) of the current run.     *)
(***************************************************************************)
EXTENDS Naturals, Sequences, FiniteSets

VARIABLES
    env,        \* process environment of the current invocation
    pc,         \* position of the current invocation in main
    log,        \* external steps performed by the current invocation
    abortMsg,   \* the panic of the current invocation (NoAbort if none)
    srcDir,     \* tf_src_path exists
    marker,     \* tf_src_path/.complete_clone exists
    hdrs,       \* headers present under tf_src_path
    out,        \* files that exist in OUT_DIR
    userFiles,  \* files that exist at the caller's TFLITEC_PREBUILT_PATH
    ret         \* return value of the function applied last (SpecEnv)

vars == <<env, pc, log, abortMsg, srcDir, marker, hdrs, out, userFiles, ret>>

\* ------------------------------------------------------------------------
\* Bounds
\* ------------------------------------------------------------------------

\* At most this many of the customization variables and of the variables of
\* the defaults table are set by the caller of one invocation.
MaxCallerSet == 2

\* At most this many of the Android SDK variables are unset by the caller.
MaxMissing == 2

\* ------------------------------------------------------------------------
\* Environment
\* ------------------------------------------------------------------------

Unset == "<unset>"
None == "<none>"

\* The value the caller gives a variable it sets; a target-suffixed variable
\* gets another value than its unsuffixed counterpart.
CallerValue(k) ==
    IF k \in {"TFLITEC_BAZEL_COPTS_ARCH_VENDOR_OS",
              "TFLITEC_PREBUILT_PATH_ARCH_VENDOR_OS",
              "TFLITEC_HEADER_DIR_ARCH_VENDOR_OS"}
    THEN "caller-suffixed-value"
    ELSE "caller-value"

BAZEL_COPTS_ENV_VAR == "TFLITEC_BAZEL_COPTS"
PREBUILT_PATH_ENV_VAR == "TFLITEC_PREBUILT_PATH"
HEADER_DIR_ENV_VAR == "TFLITEC_HEADER_DIR"

CustomVars == {BAZEL_COPTS_ENV_VAR, PREBUILT_PATH_ENV_VAR, HEADER_DIR_ENV_VAR}

\* The one target triple of the model and its normalisation
\* (to_uppercase, then '-' replaced by '_').
TargetTriples == {"arch-vendor-os"}

Normalize(t) ==
    CASE t = "arch-vendor-os" -> "ARCH_VENDOR_OS"

\* format!("{var}_{target}")
Suffixed(var, target) ==
    CASE var = "TFLITEC_BAZEL_COPTS" /\ target = "ARCH_VENDOR_OS"
            -> "TFLITEC_BAZEL_COPTS_ARCH_VENDOR_OS"
      [] var = "TFLITEC_PREBUILT_PATH" /\ target = "ARCH_VENDOR_OS"
            -> "TFLITEC_PREBUILT_PATH_ARCH_VENDOR_OS"
      [] var = "TFLITEC_HEADER_DIR" /\ target = "ARCH_VENDOR_OS"
            -> "TFLITEC_HEADER_DIR_ARCH_VENDOR_OS"

SuffixedVars == {Suffixed(v, Normalize(t)) : v \in CustomVars, t \in TargetTriples}

defaults(python_bin_path) ==
    << <<"PYTHON_BIN_PATH", python_bin_path>>,
       <<"USE_DEFAULT_PYTHON_LIB_PATH", "1">>,
       <<"TF_NEED_OPENCL", "0">>,
       <<"TF_CUDA_CLANG", "0">>,
       <<"TF_NEED_TENSORRT", "0">>,
       <<"TF_DOWNLOAD_CLANG", "0">>,
       <<"TF_NEED_MPI", "0">>,
       <<"TF_NEED_ROCM", "0">>,
       <<"TF_NEED_CUDA", "0">>,
       <<"TF_OVERRIDE_EIGEN_STRONG_INLINE", "1">>,
       <<"CC_OPT_FLAGS", "-Wno-sign-compare">> >>

DefaultVars == {defaults(None)[i][1] : i \in DOMAIN defaults(None)}

android_env_vars ==
    << "ANDROID_NDK_HOME",
       "ANDROID_NDK_API_LEVEL",
       "ANDROID_SDK_HOME",
       "ANDROID_API_LEVEL",
       "ANDROID_BUILD_TOOLS_VERSION" >>

AndroidVars == {android_env_vars[i] : i \in DOMAIN android_env_vars}

EnvNames ==
    {"DOCS_RS", "TARGET", "CARGO_CFG_TARGET_OS", "CARGO_CFG_TARGET_ARCH",
     "TF_SET_ANDROID_WORKSPACE", "TF_CONFIGURE_IOS"}
    \cup CustomVars \cup SuffixedVars \cup DefaultVars \cup AndroidVars

OSes == {"android", "ios", "macos", "linux", "windows"}
Arches == {"aarch64", "armv7", "x86_64"}

\* ------------------------------------------------------------------------
\* Environment & target logic (pure functions of the environment)
\* ------------------------------------------------------------------------

target_os(e) == e["CARGO_CFG_TARGET_OS"]

target_arch(e) ==
    LET arch == e["CARGO_CFG_TARGET_ARCH"]
    IN  CASE arch = "aarch64" -> "arm64"
          [] arch = "armv7" -> IF target_os(e) = "android" THEN "arm" ELSE arch
          [] OTHER -> arch

dll_extension(e) ==
    CASE target_os(e) = "macos" -> "dylib"
      [] target_os(e) = "windows" -> "dll"
      [] OTHER -> "so"

dll_prefix(e) ==
    CASE target_os(e) = "windows" -> ""
      [] OTHER -> "lib"

normalized_target(e) ==
    IF e["TARGET"] = Unset THEN None ELSE Normalize(e["TARGET"])

\* Mutant: the unsuffixed variable wins over the target-suffixed one.
get_target_dependent_env_var_unsuffixed_first(e, var) ==
    LET target == normalized_target(e)
    IN  IF e[var] # Unset
        THEN e[var]
        ELSE IF target # None /\ e[Suffixed(var, target)] # Unset
             THEN e[Suffixed(var, target)]
             ELSE None

get_target_dependent_env_var(e, var) ==
    LET target == normalized_target(e)
    IN  IF target # None /\ e[Suffixed(var, target)] # Unset
        THEN e[Suffixed(var, target)]
        ELSE IF e[var] # Unset THEN e[var] ELSE None

\* format!("{}_{}", os, arch)
Joined(os, arch) ==
    CASE os = "android" /\ arch = "arm64" -> "android_arm64"
      [] os = "android" /\ arch = "arm" -> "android_arm"
      [] os = "android" /\ arch = "armv7" -> "android_armv7"
      [] os = "android" /\ arch = "x86_64" -> "android_x86_64"
      [] os = "ios" /\ arch = "arm64" -> "ios_arm64"
      [] os = "ios" /\ arch = "arm" -> "ios_arm"
      [] os = "ios" /\ arch = "armv7" -> "ios_armv7"
      [] os = "ios" /\ arch = "x86_64" -> "ios_x86_64"
      [] os = "macos" /\ arch = "arm64" -> "macos_arm64"
      [] os = "macos" /\ arch = "arm" -> "macos_arm"
      [] os = "macos" /\ arch = "armv7" -> "macos_armv7"
      [] os = "macos" /\ arch = "x86_64" -> "macos_x86_64"
      [] os = "linux" /\ arch = "arm64" -> "linux_arm64"
      [] os = "linux" /\ arch = "arm" -> "linux_arm"
      [] os = "linux" /\ arch = "armv7" -> "linux_armv7"
      [] os = "linux" /\ arch = "x86_64" -> "linux_x86_64"
      [] os = "windows" /\ arch = "arm64" -> "windows_arm64"
      [] os = "windows" /\ arch = "arm" -> "windows_arm"
      [] os = "windows" /\ arch = "armv7" -> "windows_armv7"
      [] os = "windows" /\ arch = "x86_64" -> "windows_x86_64"

\* Mutant: macos is concatenated with every architecture.
compute_bazel_config_any_macos(os, arch) ==
    IF os = "android" \/ os = "ios" \/ os = "macos"
    THEN Joined(os, arch)
    ELSE os

compute_bazel_config(os, arch) ==
    IF os = "android" \/ os = "ios" \/ (os = "macos" /\ arch = "arm64")
    THEN Joined(os, arch)
    ELSE os

\* ------------------------------------------------------------------------
\* Python logic
\* ------------------------------------------------------------------------

\* What `which python3` / `which python` and the import test can report:
\* the first binary that passes the test, or None.
ProbeResults == {None, "/usr/bin/python3", "/usr/bin/python"}

\* testOk: test_python_bin of the PYTHON_BIN_PATH override succeeds.
\* probed: the binary the search for python3, then python, ends with.
get_python_bin_path(e, testOk, probed) ==
    IF e["PYTHON_BIN_PATH"] # Unset
    THEN IF ~testOk
         THEN [kind |-> "panic", path |-> None]
         ELSE [kind |-> "some", path |-> e["PYTHON_BIN_PATH"]]
    ELSE IF probed # None
         THEN [kind |-> "some", path |-> probed]
         ELSE [kind |-> "none", path |-> None]

\* ------------------------------------------------------------------------
\* check_and_set_envs
\* ------------------------------------------------------------------------

NoAbort == [kind |-> "none", names |-> {}]
Panic(kind) == [kind |-> kind, names |-> {}]

DefaultOf(k, python_bin_path) ==
    LET d == defaults(python_bin_path)
    IN  d[CHOOSE i \in DOMAIN d : d[i][1] = k][2]

\* Mutant: the default is set whether or not the caller set the variable.
SetDefault_always(e, k, v) == v

\* for (k, v) in defaults { if env::var_os(k).is_none() { env::set_var(k, v) } }
SetDefault(e, k, v) == IF e[k] = Unset THEN v ELSE e[k]

SetDefaults(e, python_bin_path) ==
    [k \in DOMAIN e |->
        IF k \in DefaultVars
        THEN SetDefault(e, k, DefaultOf(k, python_bin_path))
        ELSE e[k]]

MissingAndroid(e) == {i \in DOMAIN android_env_vars : e[android_env_vars[i]] = Unset}

\* The loop over android_env_vars panics at the first name that is unset.
FirstMissing(e) ==
    android_env_vars[CHOOSE i \in MissingAndroid(e) :
                        \A j \in MissingAndroid(e) : i <= j]

\* Mutant: the panic names every unset variable.
AndroidPanicNames_all(e) == {android_env_vars[i] : i \in MissingAndroid(e)}

\* panic!("{} should be set for Android build", name)
AndroidPanicNames(e) == {FirstMissing(e)}

check_and_set_envs(e, testOk, probed) ==
    LET py == get_python_bin_path(e, testOk, probed)
        os == target_os(e)
        e1 == SetDefaults(e, py.path)
        e2 == [e1 EXCEPT !["TF_SET_ANDROID_WORKSPACE"] =
                            IF os = "android" THEN "1" ELSE "0"]
        e3 == [e2 EXCEPT !["TF_CONFIGURE_IOS"] = IF os = "ios" THEN "1" ELSE "0"]
    IN  CASE py.kind = "panic" ->
                [env |-> e, abort |-> Panic("PYTHON_BIN_PATH failed the import test")]
          [] py.kind = "none" ->
                [env |-> e, abort |-> Panic("Cannot find Python binary")]
          [] OTHER ->
                IF os = "android" /\ MissingAndroid(e) # {}
                THEN [env |-> e2,
                      abort |-> [kind |-> "should be set for Android build",
                                 names |-> AndroidPanicNames(e)]]
                ELSE [env |-> e3, abort |-> NoAbort]

\* ------------------------------------------------------------------------
\* Environments an invocation can start in
\* ------------------------------------------------------------------------

SubsetsUpTo(S, n) == {X \in SUBSET S : Cardinality(X) <= n}

\* The environment Cargo gives the build script: target OS, architecture and
\* triple set, everything else as the caller set it (the names in `set`).
MkEnv(os, arch, target, docs, set) ==
    [k \in EnvNames |->
        CASE k = "CARGO_CFG_TARGET_OS" -> os
          [] k = "CARGO_CFG_TARGET_ARCH" -> arch
          [] k = "TARGET" -> target
          [] k = "DOCS_RS" -> docs
          [] OTHER -> IF k \in set THEN CallerValue(k) ELSE Unset]

\* The SDK variables the caller has set: all of them but at most MaxMissing
\* on android, none elsewhere.
AndroidSets(os) ==
    IF os = "android"
    THEN {AndroidVars \ M : M \in SubsetsUpTo(AndroidVars, MaxMissing)}
    ELSE {{}}

\* ------------------------------------------------------------------------
\* SpecEnv: the environment functions applied to bounded environments
\* ------------------------------------------------------------------------

NoRet == [fn |-> None, arg |-> None, val |-> None]

PureEnvs ==
    UNION {{MkEnv(os, arch, target, Unset, set \cup sdk) :
                arch \in Arches, target \in TargetTriples \cup {Unset},
                set \in SubsetsUpTo(CustomVars \cup SuffixedVars \cup DefaultVars,
                                    MaxCallerSet),
                sdk \in IF os = "android" THEN {AndroidVars, {}} ELSE {{}}}
           : os \in OSes}

InitEnv ==
    /\ env \in PureEnvs
    /\ pc = "input"
    /\ log = <<>>
    /\ abortMsg = NoAbort
    /\ srcDir = FALSE
    /\ marker = FALSE
    /\ hdrs = {}
    /\ out = {}
    /\ userFiles = {}
    /\ ret = NoRet

ApplyLookup ==
    /\ pc = "input"
    /\ \E var \in CustomVars :
          ret' = [fn |-> "get_target_dependent_env_var", arg |-> var,
                  val |-> get_target_dependent_env_var(env, var)]
    /\ pc' = "returned"
    /\ UNCHANGED <<env, log, abortMsg, srcDir, marker, hdrs, out, userFiles>>

ApplyBazelConfig ==
    /\ pc = "input"
    /\ ret' = [fn |-> "compute_bazel_config", arg |-> target_arch(env),
               val |-> compute_bazel_config(target_os(env), target_arch(env))]
    /\ pc' = "returned"
    /\ UNCHANGED <<env, log, abortMsg, srcDir, marker, hdrs, out, userFiles>>

ApplyCheckAndSetEnvs ==
    /\ pc = "input"
    /\ \E testOk \in BOOLEAN, probed \in ProbeResults :
          LET r == check_and_set_envs(env, testOk, probed)
          IN  /\ env' = r.env
              /\ abortMsg' = r.abort
              /\ ret' = [fn |-> "check_and_set_envs", arg |-> probed,
                         val |-> r.abort.kind]
    /\ pc' = "returned"
    /\ UNCHANGED <<log, srcDir, marker, hdrs, out, userFiles>>

NextEnv == ApplyLookup \/ ApplyBazelConfig \/ ApplyCheckAndSetEnvs

SpecEnv == InitEnv /\ [][NextEnv]_vars

\* ------------------------------------------------------------------------
\* Files
\* ------------------------------------------------------------------------

\* out_dir().join(format!("{}tensorflowlite_c.{}", prefix, ext))
LibFileName(prefix, ext) ==
    CASE prefix = "lib" /\ ext = "so" -> "libtensorflowlite_c.so"
      [] prefix = "lib" /\ ext = "dylib" -> "libtensorflowlite_c.dylib"
      [] prefix = "" /\ ext = "dll" -> "tensorflowlite_c.dll"

lib_output_path(e) ==
    IF target_os(e) # "ios"
    THEN LibFileName(dll_prefix(e), dll_extension(e))
    ELSE "TensorFlowLiteC.framework"

\* lib_output_path with set_extension("lib"); out_dir().join("tensorflowlite_c.lib")
WinLibFile == "tensorflowlite_c.lib"
BindingsFile == "bindings.rs"
DocsLibraryFile == "libtensorflowlite_c.so"

\* The headers install_prebuilt asks for (feature "xnnpack" off).
headers == << "tensorflow/lite/c/c_api.h", "tensorflow/lite/c/c_api_types.h" >>
HeaderFiles == {headers[i] : i \in DOMAIN headers}

\* One external step of the run: a sub-process, a file operation or a probe.
Step(op, res, arg) == [op |-> op, res |-> res, arg |-> arg]

ProcessResults == {"nostart", "nonzero", "ok"}

\* copy_or_overwrite on a file of OUT_DIR: the destination is removed first,
\* then the copy either succeeds or panics.
copy_or_overwrite(o, dest, copyOk) ==
    IF copyOk THEN o \cup {dest} ELSE o \ {dest}

\* ------------------------------------------------------------------------
\* main
\* ------------------------------------------------------------------------

DocsValues == {Unset, "1", "true"}

\* What the caller may have put at the prebuilt path: the artifact itself and,
\* looked for on windows only, the import library (the same path with the
\* extension lib).
PrebuiltFiles(os) ==
    IF os = "windows" THEN {"artifact", "import_lib"} ELSE {"artifact"}

\* The variables the caller of a run may set besides DOCS_RS and the SDK ones.
FlowVars ==
    {PREBUILT_PATH_ENV_VAR, Suffixed(PREBUILT_PATH_ENV_VAR, "ARCH_VENDOR_OS"),
     HEADER_DIR_ENV_VAR, Suffixed(HEADER_DIR_ENV_VAR, "ARCH_VENDOR_OS"),
     "PYTHON_BIN_PATH"}

\* The architecture of the one target an OUT_DIR is built for.
FlowArch(os) ==
    IF os \in {"android", "ios", "macos"} THEN "aarch64" ELSE "x86_64"

\* Mutant: DOCS_RS is not looked at.
MainBranch_no_docs(e) ==
    IF get_target_dependent_env_var(e, PREBUILT_PATH_ENV_VAR) # None
    THEN "install_prebuilt"
    ELSE "check_and_set_envs"

\* Mutant: the prebuilt override is not looked at.
MainBranch_no_prebuilt(e) ==
    IF e["DOCS_RS"] = "1" THEN "prepare_for_docsrs" ELSE "check_and_set_envs"

\* The branch main takes after reading the environment.
MainBranch(e) ==
    IF e["DOCS_RS"] = "1"
    THEN "prepare_for_docsrs"
    ELSE IF get_target_dependent_env_var(e, PREBUILT_PATH_ENV_VAR) # None
         THEN "install_prebuilt"
         ELSE "check_and_set_envs"

Init ==
    /\ \E os \in OSes :
          env = MkEnv(os, FlowArch(os), "arch-vendor-os", Unset, {})
    /\ pc = "idle"
    /\ log = <<>>
    /\ abortMsg = NoAbort
    /\ srcDir = FALSE
    /\ marker = FALSE
    /\ hdrs = {}
    /\ out = {}
    /\ userFiles = {}
    /\ ret = NoRet

\* A new invocation of the build script on the same OUT_DIR and target.
StartRun ==
    /\ pc = "idle"
    /\ \E docs \in DocsValues,
          set \in SubsetsUpTo(FlowVars, MaxCallerSet),
          sdk \in AndroidSets(target_os(env)) :
          LET e == MkEnv(target_os(env), env["CARGO_CFG_TARGET_ARCH"],
                         env["TARGET"], docs, set \cup sdk)
          IN  /\ env' = e
              /\ pc' = MainBranch(e)
              /\ userFiles' \in IF get_target_dependent_env_var(e, PREBUILT_PATH_ENV_VAR) # None
                                THEN SUBSET PrebuiltFiles(target_os(e))
                                ELSE {{}}
    /\ log' = <<>>
    /\ abortMsg' = NoAbort
    /\ UNCHANGED <<srcDir, marker, hdrs, out, ret>>

\* ------------------------------------------------------------------------
\* docs.rs
\* ------------------------------------------------------------------------

PrepareForDocsrs ==
    /\ pc = "prepare_for_docsrs"
    /\ \E res \in ProcessResults, extracted \in SUBSET {DocsLibraryFile, BindingsFile} :
          LET o == IF res = "nostart" THEN out ELSE out \cup extracted
              success == res = "ok"
          IN  /\ out' = o
              /\ log' = Append(log, Step("unzip_docs", res, None))
              /\ IF ~success \/ DocsLibraryFile \notin o \/ BindingsFile \notin o
                 THEN /\ pc' = "aborted"
                      /\ abortMsg' = Panic("Failed to extract docs.rs resources")
                 ELSE /\ pc' = "done"
                      /\ abortMsg' = NoAbort
    /\ UNCHANGED <<env, srcDir, marker, hdrs, userFiles, ret>>

\* ------------------------------------------------------------------------
\* Prebuilt installation
\* ------------------------------------------------------------------------

\* Mutant: the import library is copied without the exists() check.
InstallImportLib_unchecked(o, libExists, copyOk) ==
    [out |-> copy_or_overwrite(o, WinLibFile, libExists /\ copyOk),
     steps |-> << Step("copy_import_lib",
                       IF libExists /\ copyOk THEN "ok" ELSE "failed", None) >>,
     abort |-> IF libExists /\ copyOk THEN NoAbort ELSE Panic("Cannot copy file")]

\* Step 2 of install_prebuilt on windows.
InstallImportLib(o, libExists, copyOk) ==
    IF ~libExists
    THEN [out |-> o,
          steps |-> << Step("exists_import_lib", "missing", None) >>,
          abort |-> Panic("A prebuilt .dll must have a matching .lib file")]
    ELSE [out |-> copy_or_overwrite(o, WinLibFile, copyOk),
          steps |-> << Step("exists_import_lib", "ok", None),
                       Step("copy_import_lib",
                            IF copyOk THEN "ok" ELSE "failed", None) >>,
          abort |-> IF copyOk THEN NoAbort ELSE Panic("Cannot copy file")]

\* Steps 1 and 2 of install_prebuilt.
InstallPrebuilt ==
    /\ pc = "install_prebuilt"
    /\ \E copyOk \in BOOLEAN, libCopyOk \in BOOLEAN :
          LET libExists == "import_lib" \in userFiles
              o1 == copy_or_overwrite(out, lib_output_path(env), copyOk)
              l1 == Append(log, Step("copy_prebuilt",
                                     IF copyOk THEN "ok" ELSE "failed", None))
              r == InstallImportLib(o1, libExists, libCopyOk)
          IN  /\ copyOk => "artifact" \in userFiles
              /\ IF ~copyOk
                 THEN /\ out' = o1
                      /\ log' = l1
                      /\ pc' = "aborted"
                      /\ abortMsg' = Panic("Cannot copy file")
                 ELSE IF target_os(env) = "windows"
                      THEN /\ out' = r.out
                           /\ log' = l1 \o r.steps
                           /\ abortMsg' = r.abort
                           /\ pc' = IF r.abort = NoAbort
                                    THEN "copy_or_download_headers"
                                    ELSE "aborted"
                      ELSE /\ out' = o1
                           /\ log' = l1
                           /\ abortMsg' = NoAbort
                           /\ pc' = "copy_or_download_headers"
    /\ UNCHANGED <<env, srcDir, marker, hdrs, userFiles, ret>>

\* ------------------------------------------------------------------------
\* Headers (copy / download)
\* ------------------------------------------------------------------------

\* Mutant: headers are downloaded whether or not a header directory is given.
HeaderOp_download_always(e) == "download_header"

\* The header operation copy_or_download_headers selects.
HeaderOp(e) ==
    IF get_target_dependent_env_var(e, HEADER_DIR_ENV_VAR) # None
    THEN "copy_header"
    ELSE "download_header"

\* The headers the loop does not skip: those with no file at the destination.
HeadersToFetch(present) == SelectSeq(headers, LAMBDA h : h \notin present)

\* Mutant: a failed download leaves the partially written file in place.
download_file_failed_no_cleanup(h, created, removed) ==
    [left |-> IF created THEN {h} ELSE {},
     steps |-> << Step("download_header",
                       IF created THEN "failed" ELSE "create_failed", h) >>]

\* download_file when it panics. created: File::create(path) succeeds (its
\* unwrap panics otherwise); then easy.perform() returns an error, and
\* removed: std::fs::remove_file(path) succeeds (its result is dropped by
\* .ok(), so a failed removal leaves the partial file behind).
download_file_failed(h, created, removed) ==
    IF ~created
    THEN [left |-> {},
          steps |-> << Step("download_header", "create_failed", h) >>]
    ELSE [left |-> IF removed THEN {} ELSE {h},
          steps |-> << Step("download_header", "failed", h),
                       Step("remove_file", IF removed THEN "ok" ELSE "failed", h) >>]

\* copy_or_overwrite of a header when it panics. written: std::fs::copy had
\* created the destination before it failed; nothing removes it.
copy_header_failed(h, written) ==
    [left |-> IF written THEN {h} ELSE {},
     steps |-> << Step("copy_header", "failed", h) >>]

\* Step 3 of install_prebuilt: the first n missing headers are obtained; the
\* next one, if any is left, fails and the run panics.
CopyOrDownloadHeaders ==
    /\ pc = "copy_or_download_headers"
    /\ LET todo == HeadersToFetch(hdrs)
           op == HeaderOp(env)
       IN  \E n \in 0..Len(todo), created \in BOOLEAN, removed \in BOOLEAN :
              LET f == IF n = Len(todo)
                       THEN [left |-> {}, steps |-> << >>]
                       ELSE IF op = "copy_header"
                            THEN copy_header_failed(todo[n + 1], created)
                            ELSE download_file_failed(todo[n + 1], created, removed)
              IN  /\ hdrs' = hdrs \cup {todo[i] : i \in 1..n} \cup f.left
                  /\ srcDir' = (srcDir \/ Len(todo) > 0)
                  /\ log' = log \o [i \in 1..n |-> Step(op, "ok", todo[i])] \o f.steps
                  /\ IF n < Len(todo)
                     THEN /\ pc' = "aborted"
                          /\ abortMsg' = Panic(IF op = "copy_header"
                                               THEN "Cannot copy file"
                                               ELSE "Error occurred while downloading")
                     ELSE /\ pc' = "generate_bindings"
                          /\ abortMsg' = NoAbort
    /\ UNCHANGED <<env, marker, out, userFiles, ret>>

\* ------------------------------------------------------------------------
\* Build from source
\* ------------------------------------------------------------------------

CheckAndSetEnvs ==
    /\ pc = "check_and_set_envs"
    /\ \E testOk \in BOOLEAN, probed \in ProbeResults :
          LET r == check_and_set_envs(env, testOk, probed)
              py == get_python_bin_path(env, testOk, probed)
          IN  /\ env' = r.env
              /\ abortMsg' = r.abort
              /\ log' = Append(log, Step("probe_python",
                                         IF py.kind = "some" THEN "ok" ELSE "failed",
                                         py.path))
              /\ pc' = IF r.abort = NoAbort
                       THEN "prepare_tensorflow_source"
                       ELSE "aborted"
    /\ UNCHANGED <<srcDir, marker, hdrs, out, userFiles, ret>>

\* Mutant: the clone runs whether or not the marker exists.
NeedsClone_always(mk) == TRUE

\* if !complete_clone_hint_file.exists() { .. }
NeedsClone(mk) == ~mk

\* Mutant: the exit status of git clone is not looked at.
CloneSucceeded_any_exit(res) == res # "nostart"

\* git.status().expect(..).success()
CloneSucceeded(res) == res = "ok"

\* Mutant: an existing source tree without the marker is cloned over.
RemovesStaleTree_never(dirExists) == FALSE

\* if tf_src_path.exists() { remove_dir_all(tf_src_path) }
RemovesStaleTree(dirExists) == dirExists

\* rmOk: remove_dir_all succeeds; cloneRes: how git clone ends; leftDir,
\* leftHdrs: what a failed clone leaves behind; markOk: File::create succeeds.
PrepareTensorflowSource ==
    /\ pc = "prepare_tensorflow_source"
    /\ IF ~NeedsClone(marker)
       THEN /\ pc' = "build_tensorflow_with_bazel"
            /\ UNCHANGED <<log, abortMsg, srcDir, marker, hdrs>>
       ELSE \E rmOk \in BOOLEAN, cloneRes \in ProcessResults, leftDir \in BOOLEAN,
               leftHdrs \in SUBSET HeaderFiles, markOk \in BOOLEAN :
               LET rm == RemovesStaleTree(srcDir)
                   baseDir == IF rm THEN FALSE ELSE srcDir
                   baseHdrs == IF rm THEN {} ELSE hdrs
                   l0 == IF rm
                         THEN Append(log, Step("remove_src_dir",
                                               IF rmOk THEN "ok" ELSE "failed", None))
                         ELSE log
                   l1 == Append(l0, Step("git_clone", cloneRes, None))
               IN  IF rm /\ ~rmOk
                   THEN /\ log' = l0
                        /\ pc' = "aborted"
                        /\ abortMsg' = Panic("Cannot remove existing tf_src_path")
                        /\ UNCHANGED <<srcDir, marker, hdrs>>
                   ELSE IF ~CloneSucceeded(cloneRes)
                        THEN /\ log' = l1
                             /\ pc' = "aborted"
                             /\ abortMsg' = Panic(IF cloneRes = "nostart"
                                                  THEN "Failed to execute git clone"
                                                  ELSE "git clone failed")
                             /\ srcDir' = IF cloneRes = "nostart" THEN baseDir
                                                                   ELSE leftDir
                             /\ hdrs' = IF cloneRes = "nostart" THEN baseHdrs
                                        ELSE IF leftDir THEN leftHdrs ELSE {}
                             /\ marker' = FALSE
                        ELSE /\ srcDir' = TRUE
                             /\ hdrs' = IF cloneRes = "ok" THEN HeaderFiles ELSE leftHdrs
                             /\ marker' = markOk
                             /\ log' = Append(l1, Step("create_marker",
                                                       IF markOk THEN "ok" ELSE "failed",
                                                       None))
                             /\ pc' = IF markOk
                                      THEN "build_tensorflow_with_bazel"
                                      ELSE "aborted"
                             /\ abortMsg' = IF markOk THEN NoAbort
                                            ELSE Panic("Cannot create the .complete_clone marker")
    /\ UNCHANGED <<env, out, userFiles, ret>>

\* unzip.status().expect("Failed to execute unzip"): the exit status is dropped.
UnzipFrameworkAborts(res) == res = "nostart"

BuildTensorflowWithBazel ==
    /\ pc = "build_tensorflow_with_bazel"
    /\ \E cfgRes \in ProcessResults, bazelRes \in ProcessResults,
          outputExists \in BOOLEAN, copyOk \in BOOLEAN, winCopyOk \in BOOLEAN,
          unzipRes \in ProcessResults :
          LET os == target_os(env)
              config == compute_bazel_config(os, target_arch(env))
              l1 == Append(log, Step("configure", cfgRes, env["PYTHON_BIN_PATH"]))
              l2 == Append(l1, Step("bazel_build", bazelRes, config))
              l3 == Append(l2, Step("bazel_output_exists",
                                    IF outputExists THEN "ok" ELSE "missing", None))
              l4 == Append(l3, Step("copy_lib", IF copyOk THEN "ok" ELSE "failed", None))
              l5 == Append(l4, Step("copy_win_lib",
                                    IF winCopyOk THEN "ok" ELSE "failed", None))
              l6 == Append(l3, Step("unzip_framework", unzipRes, None))
              o1 == copy_or_overwrite(out, lib_output_path(env), copyOk)
              o2 == copy_or_overwrite(o1, WinLibFile, winCopyOk)
              o3 == IF unzipRes = "ok"
                    THEN out \cup {lib_output_path(env)}
                    ELSE out \ {lib_output_path(env)}
          IN  CASE cfgRes # "ok" ->
                      /\ log' = l1 /\ out' = out /\ pc' = "aborted"
                      /\ abortMsg' = Panic(IF cfgRes = "nostart"
                                           THEN "Cannot execute python"
                                           ELSE "TensorFlow configuration failed")
                [] cfgRes = "ok" /\ bazelRes # "ok" ->
                      /\ log' = l2 /\ out' = out /\ pc' = "aborted"
                      /\ abortMsg' = Panic(IF bazelRes = "nostart"
                                           THEN "Unable to run bazel"
                                           ELSE "Failed to build TensorFlowLiteC via bazel")
                [] cfgRes = "ok" /\ bazelRes = "ok" /\ ~outputExists ->
                      /\ log' = l3 /\ out' = out /\ pc' = "aborted"
                      /\ abortMsg' = Panic("The expected Bazel output was not found")
                [] OTHER ->
                      IF os # "ios"
                      THEN IF ~copyOk
                           THEN /\ log' = l4 /\ out' = o1 /\ pc' = "aborted"
                                /\ abortMsg' = Panic("Cannot copy file")
                           ELSE IF os = "windows"
                                THEN /\ log' = l5 /\ out' = o2
                                     /\ pc' = IF winCopyOk THEN "generate_bindings"
                                              ELSE "aborted"
                                     /\ abortMsg' = IF winCopyOk THEN NoAbort
                                                    ELSE Panic("Cannot copy file")
                                ELSE /\ log' = l4 /\ out' = o1
                                     /\ pc' = "generate_bindings"
                                     /\ abortMsg' = NoAbort
                      ELSE /\ log' = l6 /\ out' = o3
                           /\ pc' = IF UnzipFrameworkAborts(unzipRes)
                                    THEN "aborted" ELSE "generate_bindings"
                           /\ abortMsg' = IF UnzipFrameworkAborts(unzipRes)
                                          THEN Panic("Failed to execute unzip")
                                          ELSE NoAbort
    /\ UNCHANGED <<env, srcDir, marker, hdrs, userFiles, ret>>

\* ------------------------------------------------------------------------
\* Bindings
\* ------------------------------------------------------------------------

\* bindgen succeeds only when c_api.h is under tf_src_path.
GenerateBindings ==
    /\ pc = "generate_bindings"
    /\ \E ok \in BOOLEAN :
          /\ ok => headers[1] \in hdrs
          /\ out' = IF ok THEN out \cup {BindingsFile} ELSE out
          /\ log' = Append(log, Step("bindgen", IF ok THEN "ok" ELSE "failed", None))
          /\ pc' = IF ok THEN "done" ELSE "aborted"
          /\ abortMsg' = IF ok THEN NoAbort ELSE Panic("Unable to generate bindings")
    /\ UNCHANGED <<env, srcDir, marker, hdrs, userFiles, ret>>

\* The process ends, normally or by its panic: its environment and its record
\* of steps are gone, the files stay.
Exit ==
    /\ pc \in {"done", "aborted"}
    /\ pc' = "idle"
    /\ env' = MkEnv(target_os(env), env["CARGO_CFG_TARGET_ARCH"], env["TARGET"],
                    Unset, {})
    /\ log' = <<>>
    /\ abortMsg' = NoAbort
    /\ userFiles' = {}
    /\ UNCHANGED <<srcDir, marker, hdrs, out, ret>>

Next ==
    \/ StartRun
    \/ Exit
    \/ PrepareForDocsrs
    \/ InstallPrebuilt
    \/ CopyOrDownloadHeaders
    \/ CheckAndSetEnvs
    \/ PrepareTensorflowSource
    \/ BuildTensorflowWithBazel
    \/ GenerateBindings

Spec == Init /\ [][Next]_vars

\* ------------------------------------------------------------------------
\* Properties of the environment functions (SpecEnv)
\* ------------------------------------------------------------------------

PythonPanics == {"PYTHON_BIN_PATH failed the import test", "Cannot find Python binary"}

\* C7: check_and_set_envs never overrides a caller-supplied value: a variable
\* of the defaults table that is set before the call keeps its value, and one
\* that is unset holds the table's default once the interpreter is located
\* and the table is applied (for PYTHON_BIN_PATH the located interpreter).
C7_NeverOverridesCaller ==
    [][(pc = "input" /\ ret'.fn = "check_and_set_envs") =>
          \A k \in DefaultVars :
             /\ env[k] # Unset => env'[k] = env[k]
             /\ (env[k] = Unset /\ abortMsg'.kind \notin PythonPanics) =>
                    env'[k] = DefaultOf(k, ret'.arg)]_vars

C7_Witness ==
    /\ pc = "returned"
    /\ ret.fn = "check_and_set_envs"
    /\ abortMsg = NoAbort
    /\ env["CC_OPT_FLAGS"] = "caller-value"
    /\ env["TF_NEED_CUDA"] = "0"
    /\ env["PYTHON_BIN_PATH"] = "/usr/bin/python3"

\* C8: with a normalized target known and both VAR_<TARGET> and VAR set the
\* lookup returns the suffixed value; with only VAR set, or no target known,
\* it returns the value of VAR; with neither set it returns nothing.
C8_SuffixedTakesPrecedence ==
    (pc = "returned" /\ ret.fn = "get_target_dependent_env_var") =>
        LET plain == env[ret.arg]
            suffixed == env[Suffixed(ret.arg, "ARCH_VENDOR_OS")]
            known == env["TARGET"] # Unset
        IN  /\ (known /\ suffixed # Unset /\ plain # Unset) => ret.val = suffixed
            /\ (plain # Unset /\ (suffixed = Unset \/ ~known)) => ret.val = plain
            /\ (plain = Unset /\ suffixed = Unset) => ret.val = None

C8_Witness ==
    /\ pc = "returned"
    /\ ret.fn = "get_target_dependent_env_var"
    /\ ret.arg = PREBUILT_PATH_ENV_VAR
    /\ env["TARGET"] # Unset
    /\ env["TFLITEC_PREBUILT_PATH"] = "caller-value"
    /\ env["TFLITEC_PREBUILT_PATH_ARCH_VENDOR_OS"] = "caller-suffixed-value"
    /\ ret.val = "caller-suffixed-value"

\* C9: the configuration identifier is <os>_<arch> for android and ios with
\* any architecture and for (macos, arm64), and the OS name alone for every
\* other pair; the architecture is the normalized one (aarch64 -> arm64 on
\* every OS, armv7 -> arm only on android).
C9_BazelConfig ==
    (pc = "returned" /\ ret.fn = "compute_bazel_config") =>
        LET os == env["CARGO_CFG_TARGET_OS"]
            raw == env["CARGO_CFG_TARGET_ARCH"]
            arch == IF raw = "aarch64" THEN "arm64"
                    ELSE IF raw = "armv7" /\ os = "android" THEN "arm"
                    ELSE raw
        IN  /\ ret.arg = arch
            /\ (os \in {"android", "ios"} \/ (os = "macos" /\ arch = "arm64"))
                  => ret.val = Joined(os, arch)
            /\ ~(os \in {"android", "ios"} \/ (os = "macos" /\ arch = "arm64"))
                  => ret.val = os

C9_Witness ==
    /\ pc = "returned"
    /\ ret.fn = "compute_bazel_config"
    /\ env["CARGO_CFG_TARGET_OS"] = "android"
    /\ env["CARGO_CFG_TARGET_ARCH"] = "armv7"
    /\ ret.val = "android_arm"

\* ------------------------------------------------------------------------
\* Properties of the runs (Spec)
\* ------------------------------------------------------------------------

\* The current run has performed step `op`.
Did(l, op) == \E i \in DOMAIN l : l[i].op = op
DidWith(l, op, res) == \E i \in DOMAIN l : l[i].op = op /\ l[i].res = res

\* The steps of the build-from-source path and of the prebuilt path.
SourceSteps ==
    {"probe_python", "remove_src_dir", "git_clone", "create_marker", "configure",
     "bazel_build", "bazel_output_exists", "copy_lib", "copy_win_lib",
     "unzip_framework"}
PrebuiltSteps ==
    {"copy_prebuilt", "exists_import_lib", "copy_import_lib", "copy_header",
     "download_header", "remove_file"}

\* C1: a run that reaches the source-fetch step with the marker present starts
\* no clone and deletes nothing: the step performs no external operation, and
\* no step of any run removes the marker, the source tree or a header of it
\* once the marker exists.
C1_MarkerSkipsFetch ==
    [][marker =>
          /\ marker' /\ srcDir' /\ hdrs' = hdrs
          /\ pc = "prepare_tensorflow_source" =>
                (log' = log /\ pc' = "build_tensorflow_with_bazel")]_vars

C1_Witness ==
    /\ marker
    /\ pc = "build_tensorflow_with_bazel"
    /\ Did(log, "probe_python")
    /\ ~Did(log, "git_clone")
    /\ ~Did(log, "remove_src_dir")

\* C2 as stated: whenever DOCS_RS is set, the only external step is the unzip
\* of the bundled archive and a completed run has both placeholder files.
C2_AsStated ==
    (pc # "idle" /\ env["DOCS_RS"] # Unset) =>
        /\ \A i \in DOMAIN log : log[i].op = "unzip_docs"
        /\ pc \in {"prepare_for_docsrs", "done", "aborted"}
        /\ pc = "done" => {DocsLibraryFile, BindingsFile} \subseteq out

\* C2 amended: whenever DOCS_RS is set to 1, the only external step is the
\* unzip of the bundled archive, and a run that completes has both the
\* library and the binding file in OUT_DIR (otherwise it aborts).
C2_DocsBypass ==
    (pc # "idle" /\ env["DOCS_RS"] = "1") =>
        /\ \A i \in DOMAIN log : log[i].op = "unzip_docs"
        /\ pc \in {"prepare_for_docsrs", "done", "aborted"}
        /\ pc = "done" => {DocsLibraryFile, BindingsFile} \subseteq out
        /\ pc # "prepare_for_docsrs" => Len(log) = 1

C2_Witness ==
    /\ env["DOCS_RS"] = "1"
    /\ env["TFLITEC_PREBUILT_PATH"] # Unset
    /\ pc = "done"
    /\ log = << Step("unzip_docs", "ok", None) >>
    /\ {DocsLibraryFile, BindingsFile} \subseteq out

\* C3: every external sub-process that cannot be started or exits non-zero
\* aborts the run: it is the last step of the run and no later stage runs.
SubProcesses == {"git_clone", "configure", "bazel_build", "unzip_framework", "unzip_docs"}

C3_FailFast ==
    \A i \in DOMAIN log :
        (log[i].op \in SubProcesses /\ log[i].res # "ok") =>
            (i = Len(log) /\ pc = "aborted")

\* C4 as stated: on android in the build-from-source path with a SDK variable
\* unset, the run aborts before any clone or build step and the abort names
\* every unset variable (read for the runs whose interpreter check passes).
C4_AsStated ==
    (/\ DidWith(log, "probe_python", "ok")
     /\ target_os(env) = "android"
     /\ \E v \in AndroidVars : env[v] = Unset) =>
        /\ pc = "aborted"
        /\ Len(log) = 1
        /\ abortMsg.names = {v \in AndroidVars : env[v] = Unset}

\* C4 amended: on android in the build-from-source path with a SDK variable
\* unset, the run aborts before any clone or build step; the abort reports
\* the interpreter when the interpreter check fails, and otherwise names
\* exactly one variable, the first unset one in the order of the table.
C4_AbortsNamingFirstMissing ==
    (/\ Did(log, "probe_python")
     /\ target_os(env) = "android"
     /\ \E v \in AndroidVars : env[v] = Unset) =>
        /\ pc = "aborted"
        /\ Len(log) = 1
        /\ \/ abortMsg.kind \in PythonPanics /\ abortMsg.names = {}
           \/ /\ abortMsg.kind = "should be set for Android build"
              /\ log[1].res = "ok"
              /\ \E i \in DOMAIN android_env_vars :
                    /\ env[android_env_vars[i]] = Unset
                    /\ \A j \in 1..(i - 1) : env[android_env_vars[j]] # Unset
                    /\ abortMsg.names = {android_env_vars[i]}

C4_Witness ==
    /\ pc = "aborted"
    /\ target_os(env) = "android"
    /\ env["ANDROID_NDK_HOME"] # Unset
    /\ env["ANDROID_NDK_API_LEVEL"] = Unset
    /\ env["ANDROID_API_LEVEL"] = Unset
    /\ abortMsg.names = {"ANDROID_NDK_API_LEVEL"}
    /\ log = << Step("probe_python", "ok", "/usr/bin/python3") >>

\* C5: with the prebuilt override present (suffixed or unsuffixed) a run never
\* probes for an interpreter, clones, configures or builds; with it absent a
\* run never copies a caller-supplied artifact nor provisions headers.
PrebuiltOverridePresent ==
    \/ env["TFLITEC_PREBUILT_PATH"] # Unset
    \/ env["TFLITEC_PREBUILT_PATH_ARCH_VENDOR_OS"] # Unset

C5_PathsExclusive ==
    pc # "idle" =>
        /\ PrebuiltOverridePresent =>
              /\ \A i \in DOMAIN log : log[i].op \notin SourceSteps
              /\ pc \notin {"check_and_set_envs", "prepare_tensorflow_source",
                            "build_tensorflow_with_bazel"}
        /\ ~PrebuiltOverridePresent =>
              /\ \A i \in DOMAIN log : log[i].op \notin PrebuiltSteps
              /\ pc \notin {"install_prebuilt", "copy_or_download_headers"}

C5_Witness ==
    /\ env["TFLITEC_PREBUILT_PATH_ARCH_VENDOR_OS"] # Unset
    /\ env["TFLITEC_PREBUILT_PATH"] = Unset
    /\ env["DOCS_RS"] = Unset
    /\ pc = "done"
    /\ DidWith(log, "copy_prebuilt", "ok")
    /\ DidWith(log, "bindgen", "ok")

\* C6: on windows in the prebuilt path, with no import library beside the
\* prebuilt artifact, the installer aborts before copying it: no import
\* library is created, replaced or removed in OUT_DIR, and neither header
\* provisioning nor binding generation runs.
C6_MissingImportLibAborts ==
    [][(/\ pc = "install_prebuilt"
        /\ target_os(env) = "windows"
        /\ "import_lib" \notin userFiles) =>
          /\ pc' = "aborted"
          /\ (WinLibFile \in out') = (WinLibFile \in out)
          /\ \A i \in DOMAIN log' :
                log'[i].op \notin {"copy_import_lib", "copy_header",
                                   "download_header", "bindgen"}]_vars

C6_Witness ==
    /\ pc = "aborted"
    /\ target_os(env) = "windows"
    /\ userFiles = {"artifact"}
    /\ WinLibFile \in out
    /\ log = << Step("copy_prebuilt", "ok", None),
                Step("exists_import_lib", "missing", None) >>

\* C10: the marker is written only by a source-fetch step whose clone exited
\* successfully; a fetch step that finds the directory without the marker
\* removes it before any clone; a clone that fails aborts the run with no
\* marker, and a fetch step that finds no marker always fetches again.
C10_MarkerOnlyAfterClone ==
    [][/\ (~marker /\ marker') =>
             (pc = "prepare_tensorflow_source" /\ DidWith(log', "git_clone", "ok"))
       /\ (pc = "prepare_tensorflow_source" /\ ~marker) =>
             /\ srcDir =>
                   /\ Len(log') > Len(log)
                   /\ log'[Len(log) + 1].op = "remove_src_dir"
                   /\ Did(log', "git_clone") => log'[Len(log) + 1].res = "ok"
             /\ (\E i \in DOMAIN log' : log'[i].op = "git_clone" /\ log'[i].res # "ok")
                   => (pc' = "aborted" /\ ~marker')
             /\ Did(log', "git_clone") \/ DidWith(log', "remove_src_dir", "failed")]_vars

C10_Witness ==
    /\ pc = "aborted"
    /\ ~marker
    /\ log = << Step("probe_python", "ok", "/usr/bin/python3"),
                Step("remove_src_dir", "ok", None),
                Step("git_clone", "nonzero", None) >>

\* A download of a header that did not complete, at position i of the log.
DownloadFailedAt(l, i) ==
    l[i].op = "download_header" /\ l[i].res # "ok"

HeaderOverridePresent ==
    \/ env["TFLITEC_HEADER_DIR"] # Unset
    \/ env["TFLITEC_HEADER_DIR_ARCH_VENDOR_OS"] # Unset

\* The steps a transition appends to the log.
NewSteps == SubSeq(log', Len(log) + 1, Len(log'))

\* C12: in header provisioning a header that already has a file at its
\* destination stays and is neither copied nor downloaded; a header without
\* one is copied when the header-directory override is configured and
\* downloaded when it is not (unless an earlier header of the run failed);
\* every step of one run uses the same source, and nothing is downloaded
\* when the override is configured.
C12_HeaderProvisioning ==
    [][pc = "copy_or_download_headers" =>
          LET source == IF HeaderOverridePresent THEN "copy_header"
                                                 ELSE "download_header"
          IN  /\ \A h \in hdrs :
                    /\ h \in hdrs'
                    /\ \A i \in DOMAIN NewSteps : NewSteps[i].arg # h
              /\ \A i \in DOMAIN NewSteps :
                    \/ NewSteps[i].op = source
                    \/ /\ NewSteps[i].op = "remove_file"
                       /\ source = "download_header"
              /\ \A h \in HeaderFiles \ hdrs :
                    \/ \E i \in DOMAIN NewSteps :
                          NewSteps[i].arg = h /\ NewSteps[i].op = source
                    \/ pc' = "aborted"
              /\ \A i \in DOMAIN NewSteps :
                    (NewSteps[i].op = source /\ NewSteps[i].res = "ok")
                       => NewSteps[i].arg \in hdrs']_vars

C12_Witness ==
    /\ HeaderOverridePresent
    /\ pc = "generate_bindings"
    /\ hdrs = HeaderFiles
    /\ log = << Step("copy_prebuilt", "ok", None),
                Step("copy_header", "ok", headers[2]) >>

\* C13: no step of a prebuilt run creates or deletes the completion marker,
\* although its header step creates the source-tree directory and writes the
\* headers into it; the marker changes in prepare_tensorflow_source only. A
\* source build that finds the directory without the marker first removes it,
\* headers included, and then fetches in full: after a clone that could not
\* start nothing is left, after a successful one the tree is the clone's.
C13_PrebuiltLeavesMarker ==
    [][/\ (pc # "idle" /\ PrebuiltOverridePresent /\ env["DOCS_RS"] # "1")
             => marker' = marker
       /\ marker' # marker => pc = "prepare_tensorflow_source"
       /\ pc = "copy_or_download_headers" =>
             \A i \in DOMAIN NewSteps :
                (NewSteps[i].op \in {"copy_header", "download_header"}
                    /\ NewSteps[i].res = "ok")
                   => (srcDir' /\ NewSteps[i].arg \in hdrs')
       /\ (pc = "prepare_tensorflow_source" /\ srcDir /\ ~marker) =>
             /\ Len(NewSteps) >= 1
             /\ NewSteps[1].op = "remove_src_dir"
             /\ NewSteps[1].res # "ok" => (Len(NewSteps) = 1 /\ pc' = "aborted")
             /\ NewSteps[1].res = "ok" =>
                   /\ Len(NewSteps) >= 2
                   /\ NewSteps[2].op = "git_clone"
                   /\ NewSteps[2].res = "nostart" => (~srcDir' /\ hdrs' = {})
                   /\ NewSteps[2].res = "ok" =>
                         /\ srcDir'
                         /\ hdrs' = HeaderFiles
                         /\ marker' \/ pc' = "aborted"]_vars

C13_Witness ==
    /\ PrebuiltOverridePresent
    /\ pc = "done"
    /\ srcDir
    /\ ~marker
    /\ hdrs = HeaderFiles
    /\ log = << Step("copy_prebuilt", "ok", None),
                Step("download_header", "ok", headers[1]),
                Step("download_header", "ok", headers[2]),
                Step("bindgen", "ok", None) >>

====
